---- MODULE Spec2Model ----
(***************************************************************************)
(* Model of tutorials/tutorial2-quantum-linear-solvers-and-data-fitting/   *)
(* data-fitting.ipynb: six code cells, executed statement by statement by  *)
(* one kernel.  Numbers are exact rationals <<numerator, denominator>>;    *)
(* arrays carry numpy's kind (np.matrix or ndarray), shape and row-major   *)
(* data, because the cells depend on all three.                            *)
(***************************************************************************)
EXTENDS Integers, Naturals, Sequences, FiniteSets, TLC

(* The notebook sets nShots = 10000; the model samples ShotsBound shots.   *)
ShotsBound == 4

(* ---------------------------- rationals -------------------------------- *)
Abs(n) == IF n < 0 THEN 0 - n ELSE n

RECURSIVE GCD(_, _)
GCD(m, n) == IF n = 0 THEN m ELSE GCD(n, m % n)

Norm(n, d) ==
    LET g == GCD(Abs(n), Abs(d))
        s == IF d < 0 THEN 0 - 1 ELSE 1
    IN  <<(s * n) \div g, (s * d) \div g>>

R(n) == <<n, 1>>
Zero == R(0)
One == R(1)
Half == <<1, 2>>
RAdd(p, q) == Norm(p[1] * q[2] + q[1] * p[2], p[2] * q[2])
RNeg(p) == <<0 - p[1], p[2]>>
RMul(p, q) == Norm(p[1] * q[1], p[2] * q[2])

RECURSIVE RSum(_)
RSum(s) == IF s = <<>> THEN Zero ELSE RAdd(s[1], RSum(Tail(s)))

(* ------------------------------ arrays --------------------------------- *)
RECURSIVE Prod(_)
Prod(s) == IF s = <<>> THEN 1 ELSE s[1] * Prod(Tail(s))

RECURSIVE Flatten(_)
Flatten(rows) == IF rows = <<>> THEN <<>> ELSE rows[1] \o Flatten(Tail(rows))

NoArr == [kind |-> "none", shape |-> <<>>, data |-> <<>>]

(* np.matrix(nested list): always two-dimensional *)
np_matrix(rows) ==
    [kind |-> "matrix", shape |-> <<Len(rows), Len(rows[1])>>, data |-> Flatten(rows)]

(* np.array(flat list): one-dimensional ndarray *)
np_array(list) == [kind |-> "ndarray", shape |-> <<Len(list)>>, data |-> list]

(* variant: the resize is lost and the array keeps its shape *)
resize_dropped(a, new_shape) == a

(* ndarray.resize(new_shape), in place: data kept, truncated or zero-filled *)
resize(a, new_shape) ==
    [a EXCEPT !.shape = new_shape,
              !.data = [i \in 1..Prod(new_shape) |->
                            IF i <= Len(a.data) THEN a.data[i] ELSE Zero]]

Rows(a) == a.shape[1]
Cols(a) == a.shape[2]
At2(a, i, j) == a.data[(i - 1) * Cols(a) + j]

(* np.asmatrix / np.atleast_2d: a 1-D array of n entries becomes 1 x n *)
atleast_2d(a) == IF Len(a.shape) = 1 THEN [a EXCEPT !.shape = <<1, a.shape[1]>>] ELSE a

(* matrix.getH(): conjugate transpose; the entries are real *)
getH(m) ==
    [kind |-> "matrix", shape |-> <<Cols(m), Rows(m)>>,
     data |-> [k \in 1..(Rows(m) * Cols(m)) |->
                  At2(m, ((k - 1) % Rows(m)) + 1, ((k - 1) \div Rows(m)) + 1)]]

(* matrix.__mul__(other) = np.dot(self, asmatrix(other)) *)
Conformable(m, other) == Cols(m) = Rows(atleast_2d(other))

matmul(m, other) ==
    LET o == atleast_2d(other)
    IN  [kind |-> "matrix", shape |-> <<Rows(m), Cols(o)>>,
         data |-> [k \in 1..(Rows(m) * Cols(o)) |->
                      LET i == ((k - 1) \div Cols(o)) + 1
                          j == ((k - 1) % Cols(o)) + 1
                      IN  RSum([t \in 1..Cols(m) |-> RMul(At2(m, i, t), At2(o, t, j))])]]

(* variant: np.pad(a, ((0, r), (0, 0))), the columns left unpadded *)
np_pad_rows_only(a, r, c) ==
    [kind |-> "ndarray", shape |-> <<Rows(a) + r, Cols(a)>>,
     data |-> [k \in 1..((Rows(a) + r) * Cols(a)) |->
                  IF k <= Len(a.data) THEN a.data[k] ELSE Zero]]

(* variant: np.pad(a, ((r, r), (c, c))), padded before as well as after *)
np_pad_both_sides(a, r, c) ==
    [kind |-> "ndarray", shape |-> <<Rows(a) + 2 * r, Cols(a) + 2 * c>>,
     data |-> [k \in 1..((Rows(a) + 2 * r) * (Cols(a) + 2 * c)) |->
                  LET i == ((k - 1) \div (Cols(a) + 2 * c)) + 1 - r
                      j == ((k - 1) % (Cols(a) + 2 * c)) + 1 - c
                  IN  IF i >= 1 /\ i <= Rows(a) /\ j >= 1 /\ j <= Cols(a)
                      THEN At2(a, i, j) ELSE Zero]]

(* variant: the padded array keeps the kind of a, np.matrix included *)
np_pad_keeps_kind(a, r, c) ==
    [kind |-> a.kind, shape |-> <<Rows(a) + r, Cols(a) + c>>,
     data |-> [k \in 1..((Rows(a) + r) * (Cols(a) + c)) |->
                  LET i == ((k - 1) \div (Cols(a) + c)) + 1
                      j == ((k - 1) % (Cols(a) + c)) + 1
                  IN  IF i <= Rows(a) /\ j <= Cols(a) THEN At2(a, i, j) ELSE Zero]]

(* variant: np.pad(a, ((0, r), (c, 0))), the columns added in front *)
np_pad_column_before(a, r, c) ==
    [kind |-> "ndarray", shape |-> <<Rows(a) + r, Cols(a) + c>>,
     data |-> [k \in 1..((Rows(a) + r) * (Cols(a) + c)) |->
                  LET i == ((k - 1) \div (Cols(a) + c)) + 1
                      j == ((k - 1) % (Cols(a) + c)) + 1 - c
                  IN  IF i <= Rows(a) /\ j >= 1 THEN At2(a, i, j) ELSE Zero]]

(* np.pad(a, ((0, r), (0, c))): np.asarray first, then zeros appended *)
np_pad(a, r, c) ==
    [kind |-> "ndarray", shape |-> <<Rows(a) + r, Cols(a) + c>>,
     data |-> [k \in 1..((Rows(a) + r) * (Cols(a) + c)) |->
                  LET i == ((k - 1) \div (Cols(a) + c)) + 1
                      j == ((k - 1) % (Cols(a) + c)) + 1
                  IN  IF i <= Rows(a) /\ j <= Cols(a) THEN At2(a, i, j) ELSE Zero]]

(* variant: a[-1] = v, the whole last row assigned *)
setitem_last_row(a, v) ==
    [a EXCEPT !.data = [k \in 1..Len(a.data) |->
        IF ((k - 1) \div Cols(a)) + 1 = Rows(a) THEN v ELSE a.data[k]]]

(* variant: the assignment is left out, the corner stays as padded *)
setitem_last_last_skipped(a, v) == a

(* a[-1][-1] = v.  On an ndarray a[-1] is the last row, a 1-D view, and    *)
(* [-1] its last entry.  On an np.matrix a[-1] is a 1 x n matrix, whose    *)
(* [-1] is that whole row again, so the assignment fills the row.          *)
setitem_last_last(a, v) ==
    [a EXCEPT !.data = [k \in 1..Len(a.data) |->
        LET i == ((k - 1) \div Cols(a)) + 1
            j == ((k - 1) % Cols(a)) + 1
        IN  IF i = Rows(a) /\ (j = Cols(a) \/ a.kind = "matrix") THEN v ELSE a.data[k]]]

(* np.vstack((top, bottom)): atleast_2d on each block, joined along axis 0 *)
Stackable(top, bottom) == Cols(atleast_2d(top)) = Cols(atleast_2d(bottom))

vstack(top, bottom) ==
    LET t == atleast_2d(top)
        u == atleast_2d(bottom)
    IN  [kind |-> IF "matrix" \in {t.kind, u.kind} THEN "matrix" ELSE "ndarray",
         shape |-> <<Rows(t) + Rows(u), Cols(t)>>,
         data |-> t.data \o u.data]

(* --------------------------- linear algebra ---------------------------- *)
(* the sub-array of a on the given rows and columns (ascending sequences)  *)
Sub(a, rs, cs) ==
    [kind |-> a.kind, shape |-> <<Len(rs), Len(cs)>>,
     data |-> [k \in 1..(Len(rs) * Len(cs)) |->
                  At2(a, rs[((k - 1) \div Len(cs)) + 1], cs[((k - 1) % Len(cs)) + 1])]]

Without(n, j) == [k \in 1..(n - 1) |-> IF k < j THEN k ELSE k + 1]

(* determinant of a square array, by expansion along the first row *)
RECURSIVE Det(_)
Det(a) ==
    IF Rows(a) = 0 THEN One
    ELSE RSum([j \in 1..Cols(a) |->
            RMul(IF j % 2 = 1 THEN At2(a, 1, j) ELSE RNeg(At2(a, 1, j)),
                 Det(Sub(a, [k \in 1..(Rows(a) - 1) |-> k + 1], Without(Cols(a), j))))])

(* ascending index sequences of length k drawn from 1..n *)
Ascending(n, k) == {s \in [1..k -> 1..n] : \A i \in 1..(k - 1) : s[i] < s[i + 1]}

Min(m, n) == IF m < n THEN m ELSE n

(* np.linalg.matrix_rank: the order of the largest non-vanishing minor *)
matrix_rank(a) ==
    LET ks == {k \in 0..Min(Rows(a), Cols(a)) :
                  \E rs \in Ascending(Rows(a), k) : \E cs \in Ascending(Cols(a), k) :
                      Det(Sub(a, rs, cs)) # Zero}
    IN  CHOOSE k \in ks : \A l \in ks : l <= k

(* a with the column vector v appended as a further column *)
Augment(a, v) ==
    [kind |-> a.kind, shape |-> <<Rows(a), Cols(a) + 1>>,
     data |-> [k \in 1..(Rows(a) * (Cols(a) + 1)) |->
                  LET i == ((k - 1) \div (Cols(a) + 1)) + 1
                      j == ((k - 1) % (Cols(a) + 1)) + 1
                  IN  IF j <= Cols(a) THEN At2(a, i, j) ELSE v.data[i]]]

RDiv(p, q) == Norm(p[1] * q[2], p[2] * q[1])

(* a with its column j replaced by the vector v *)
ReplaceCol(a, j, v) ==
    [a EXCEPT !.data = [k \in 1..Len(a.data) |->
        IF ((k - 1) % Cols(a)) + 1 = j THEN v.data[((k - 1) \div Cols(a)) + 1] ELSE a.data[k]]]

(* the solution of a x = v for a non-singular square a, by Cramer's rule *)
Cramer(a, v) == [j \in 1..Cols(a) |-> RDiv(Det(ReplaceCol(a, j, v)), Det(a))]

(* a x = v, x a sequence of Cols(a) numbers *)
Solves(a, v, x) ==
    \A i \in 1..Rows(a) : RSum([t \in 1..Cols(a) |-> RMul(At2(a, i, t), x[t])]) = v.data[i]

IsPow2(n) == \E e \in 0..n : 2 ^ e = n

IsHermitian(a) ==
    /\ Rows(a) = Cols(a)
    /\ \A i \in 1..Rows(a) : \A j \in 1..Cols(a) : At2(a, i, j) = At2(a, j, i)

(* ------------------- qiskit: solver, circuit, simulator ---------------- *)
(* HHL.construct_circuit rejects a matrix that is not square, not of       *)
(* dimension 2^n, not hermitian, or not of the vector's dimension; the     *)
(* vector is normalised, which needs a non-zero vector.                    *)
SolveAccepts(mat, vec) ==
    /\ Len(mat.shape) = 2
    /\ Rows(mat) = Cols(mat)
    /\ IsPow2(Rows(mat))
    /\ IsHermitian(mat)
    /\ IsPow2(Len(vec.data))
    /\ Rows(mat) = Len(vec.data)
    /\ \E i \in 1..Len(vec.data) : vec.data[i] # Zero

Log2(n) == CHOOSE e \in 0..n : 2 ^ e = n

(* The solution register starts in |b> and is only ever acted on by        *)
(* functions of the matrix, so it stays in the span of the basis states    *)
(* connected to b's non-zero entries through the matrix's non-zero         *)
(* entries.  Basis states are numbered from 0.                             *)
RECURSIVE Reach(_, _)
Reach(mat, S) ==
    LET T == S \cup {j \in 0..(Rows(mat) - 1) :
                        \E i \in S : At2(mat, j + 1, i + 1) # Zero}
    IN  IF T = S THEN S ELSE Reach(mat, T)

NoSolution == [nb |-> 0, support |-> {}]

hhl_solve(mat, vec) ==
    [nb |-> Log2(Len(vec.data)),
     support |-> Reach(mat, {i \in 0..(Len(vec.data) - 1) : vec.data[i + 1] # Zero})]

(* a circuit: the solution register's qubits 0..nb-1 and their possible    *)
(* basis states, the number of classical bits, and meas[j+1] = the qubit   *)
(* measured onto classical bit j (-1: none)                                *)
NoCirc == [nb |-> 0, support |-> {}, nclbits |-> 0, meas |-> <<>>]

solution_state(sol) == [nb |-> sol.nb, support |-> sol.support, nclbits |-> 0, meas |-> <<>>]

(* QuantumCircuit.compose(other): a circuit without classical bits takes   *)
(* over the other's classical register; otherwise the other's must fit     *)
Composable(circ, nclbits) == circ.nclbits = 0 \/ nclbits <= circ.nclbits

compose(circ, nclbits) ==
    IF circ.nclbits = 0
    THEN [circ EXCEPT !.nclbits = nclbits, !.meas = [j \in 1..nclbits |-> 0 - 1]]
    ELSE circ

(* circuit.measure(range(n), c): qubit i onto classical bit i, i < n *)
Measurable(circ, n) == n <= circ.nclbits

measure(circ, n) ==
    [circ EXCEPT !.meas = [j \in 1..circ.nclbits |-> IF j <= n THEN j - 1 ELSE circ.meas[j]]]

Bit(i, q) == (i \div (2 ^ q)) % 2

(* what one shot can leave in the classical bits (m[j+1] is bit j) *)
PossibleMemory(circ) ==
    {m \in [1..circ.nclbits -> {0, 1}] :
        \E i \in circ.support : \A j \in 1..circ.nclbits :
            /\ circ.meas[j] = 0 - 1 => m[j] = 0
            /\ (circ.meas[j] >= 0 /\ circ.meas[j] < circ.nb) => m[j] = Bit(i, circ.meas[j])}

(* execute(circ, backend, shots).result(): one memory per shot *)
execute(circ, shots) == [1..shots -> PossibleMemory(circ)]

(* the key of a memory: its bits, highest classical bit first *)
Key(m) == [j \in 1..Len(m) |-> m[Len(m) + 1 - j]]

(* variant: every key of the register is listed, observed or not *)
get_counts_all_keys(result) ==
    [k \in UNION {[1..Len(result[s]) -> {0, 1}] : s \in 1..Len(result)} |->
        Cardinality({s \in 1..Len(result) : Key(result[s]) = k})]

(* variant: each observed key is listed once, whatever its number of shots *)
get_counts_presence(result) ==
    [k \in {Key(result[s]) : s \in 1..Len(result)} |-> 1]

(* Result.get_counts(): each observed key with the number of its shots *)
get_counts(result) ==
    [k \in {Key(result[s]) : s \in 1..Len(result)} |->
        Cardinality({s \in 1..Len(result) : Key(result[s]) = k})]

NoCounts == [k \in {} |-> 0]

(* the sum of f over the keys in S *)
RECURSIVE SumOver(_, _)
SumOver(f, S) ==
    IF S = {} THEN 0 ELSE LET k == CHOOSE x \in S : TRUE IN f[k] + SumOver(f, S \ {k})

(* variant: the bars are relative frequencies in per cent, written back    *)
(* into the mapping that was passed in                                     *)
plot_histogram_in_place(cnt) ==
    LET pct == [k \in DOMAIN cnt |-> (100 * cnt[k]) \div SumOver(cnt, DOMAIN cnt)]
    IN  [bars |-> pct, counts |-> pct]

(* plot_histogram(counts): one bar per key, of the key's count; the        *)
(* mapping itself is left as it was                                        *)
plot_histogram(cnt) == [bars |-> cnt, counts |-> cnt]

(* ----------------------------- the notebook ---------------------------- *)
VARIABLES cellState, pc, kernelCount, execution_count, bound, ns, outputs, lastStmt,
          src, calls

(* the extension script's run and the documented installation steps; each  *)
(* stands still while the notebook runs                                    *)
VARIABLES scriptLine, installed, attempts, failures, run, before, failedEarlier, exported
VARIABLES doc, stepNo, envs, active, pkgs, kernels, history

nbVars == <<cellState, pc, kernelCount, execution_count, bound, ns, outputs, lastStmt, src, calls>>
scriptVars == <<scriptLine, installed, attempts, failures, run, before, failedEarlier, exported>>
installVars == <<doc, stepNo, envs, active, pkgs, kernels, history>>

vars == <<nbVars, scriptVars, installVars>>

(* the code cells in document order, and the statements of each *)
NCells == 6
Cells == 1..NCells
NStmts == <<3, 6, 5, 4, 1, 9>>

(* variant: the second column of F left at zero *)
F_literal_rank2 == <<<<One, Zero, One>>, <<Zero, Zero, One>>, <<One, Zero, Zero>>, <<Half, Zero, Zero>>>>

F_literal == <<<<One, One, One>>, <<Zero, Zero, One>>, <<One, Zero, Zero>>, <<Half, One, Zero>>>>
(* variant: y set to the second column of F *)
y_literal_in_span == <<One, Zero, Zero, One>>

y_literal == <<Zero, Zero, One, Zero>>
y_shape == <<4, 1>>
PadRows == 1
PadCols == 1
(* variant: b padded with a single 1 *)
b_pad_one == <<One>>

b_pad == <<Zero>>
RegisterSize == 2
MeasuredQubits == 2

(* the names statement s of cell c reads *)
Reads(c, s) ==
    CASE c = 1 -> {}
      [] c = 2 -> CASE s = 1 -> {"np"}
                    [] s = 2 -> {"np", "F"}
                    [] s = 3 -> {"np"}
                    [] s = 4 -> {"y"}
                    [] s = 5 -> {"F"}
                    [] OTHER -> {"y"}
      [] c = 3 -> CASE s = 1 -> {"F"}
                    [] s = 2 -> {"np", "A"}
                    [] s = 3 -> {"A"}
                    [] s = 4 -> {"F", "y"}
                    [] OTHER -> {"np", "b"}
      [] c = 4 -> CASE s = 1 -> {}
                    [] s = 2 -> {"Aer"}
                    [] s = 3 -> {"HHL", "backend"}
                    [] OTHER -> {"hhl", "A", "b"}
      [] c = 5 -> {}
      [] OTHER -> CASE s = 1 -> {"ClassicalRegister"}
                    [] s = 2 -> {"QuantumCircuit", "c"}
                    [] s = 3 -> {"accurate_solution"}
                    [] s = 4 -> {"lambda_circ", "qc"}
                    [] s = 5 -> {"lambda_circ", "c"}
                    [] s = 6 -> {"Aer"}
                    [] s = 7 -> {"execute", "lambda_circ", "backend_qasm", "nShots"}
                    [] s = 8 -> {"res"}
                    [] OTHER -> {"plot_histogram", "counts"}

(* the library calls that can raise for reasons outside the notebook *)
MayFail == {<<4, 4>>, <<6, 7>>}

(* variant: every name is predefined, no statement raises a NameError *)
Ok_names_predefined(c, s) ==
    /\ (c = 3 /\ s = 1) => Conformable(getH(ns.F), ns.F)
    /\ (c = 3 /\ s = 4) => Conformable(getH(ns.F), ns.y)
    /\ (c = 3 /\ s = 5) => Stackable(ns.b, np_array(b_pad))
    /\ (c = 4 /\ s = 4) => SolveAccepts(ns.A, ns.b)
    /\ (c = 6 /\ s = 4) => Composable(ns.lambda_circ, ns.qc)
    /\ (c = 6 /\ s = 5) => Measurable(ns.lambda_circ, MeasuredQubits)

(* statement s of cell c can be carried out: its names are bound and the   *)
(* library accepts its operands                                            *)
Ok(c, s) ==
    /\ Reads(c, s) \subseteq bound
    /\ (c = 3 /\ s = 1) => Conformable(getH(ns.F), ns.F)
    /\ (c = 3 /\ s = 4) => Conformable(getH(ns.F), ns.y)
    /\ (c = 3 /\ s = 5) => Stackable(ns.b, np_array(b_pad))
    /\ (c = 4 /\ s = 4) => SolveAccepts(ns.A, ns.b)
    /\ (c = 6 /\ s = 4) => Composable(ns.lambda_circ, ns.qc)
    /\ (c = 6 /\ s = 5) => Measurable(ns.lambda_circ, MeasuredQubits)

NoCalls == [solve |-> 0, execute |-> 0, A |-> NoArr, b |-> NoArr]

(* the library calls made by statement s of cell c, counted; hhl.solve is  *)
(* recorded with the arguments it is handed                                *)
Called(c, s) ==
    IF c = 4 /\ s = 4 THEN [calls EXCEPT !.solve = @ + 1, !.A = ns.A, !.b = ns.b]
    ELSE IF c = 6 /\ s = 7 THEN [calls EXCEPT !.execute = @ + 1]
    ELSE calls

(* variant: the notebook checks A and b itself and calls hhl.solve only    *)
(* with operands the solver accepts                                        *)
Invoked_if_valid(c, s) ==
    /\ Reads(c, s) \subseteq bound
    /\ (c = 4 /\ s = 4) => SolveAccepts(ns.A, ns.b)

(* a statement whose names are bound gets as far as its library call *)
Invoked(c, s) == Reads(c, s) \subseteq bound

(* nothing exported from the editor *)
NoExport == [done |-> FALSE, lines |-> {}]

(* the run of the extension script not started *)
ScriptIdle ==
    /\ scriptLine = 0
    /\ installed = {}
    /\ attempts = <<>>
    /\ failures = {}
    /\ run = 0
    /\ before = {}
    /\ failedEarlier = 0
    /\ exported = NoExport

(* the installation steps not started *)
InstallIdle ==
    /\ doc = "none"
    /\ stepNo = 0
    /\ envs = {"base"}
    /\ active = "base"
    /\ pkgs = {}
    /\ kernels = {}
    /\ history = <<>>

(* a fresh kernel, before the first cell; lits are the literals of F, y *)
NotebookInit(lits) ==
    /\ src = lits
    /\ calls = NoCalls
    /\ cellState = [i \in Cells |-> "idle"]
    /\ pc = 0
    /\ kernelCount = 0
    /\ execution_count = [i \in Cells |-> 0]
    /\ bound = {}
    /\ ns = [F |-> NoArr, y |-> NoArr, A |-> NoArr, b |-> NoArr,
             accurate_solution |-> NoSolution, nShots |-> 0, c |-> 0, qc |-> 0,
             lambda_circ |-> NoCirc, res |-> <<>>, counts |-> NoCounts]
    /\ outputs = [rank |-> 0 - 1, F |-> NoArr, y |-> NoArr, figure |-> NoCounts, shown |-> FALSE]
    /\ lastStmt = <<0, 0>>

Init ==
    /\ NotebookInit([F |-> F_literal, y |-> y_literal])
    /\ ScriptIdle
    /\ InstallIdle

(* variant: any cell that has not run may be taken, in any order *)
CanStart_any_order(i) ==
    /\ \A j \in Cells : cellState[j] # "running"
    /\ cellState[i] = "idle"

(* variant: the next cell is taken without waiting for the running one *)
CanStart_no_wait(i) ==
    /\ cellState[i] = "idle"
    /\ \A j \in 1..(i - 1) : cellState[j] # "idle"

(* the kernel takes the next cell when it is idle: the first cell in       *)
(* document order that has not run, after every cell before it has         *)
(* finished without an error                                               *)
CanStart(i) ==
    /\ \A j \in Cells : cellState[j] # "running"
    /\ cellState[i] = "idle"
    /\ \A j \in 1..(i - 1) : cellState[j] = "done"

StartCell(i) ==
    /\ CanStart(i)
    /\ cellState' = [cellState EXCEPT ![i] = "running"]
    /\ pc' = 1
    /\ kernelCount' = kernelCount + 1
    /\ execution_count' = [execution_count EXCEPT ![i] = kernelCount + 1]
    /\ UNCHANGED <<bound, ns, outputs, lastStmt, src, calls, scriptVars, installVars>>

FinishCell(i) ==
    /\ cellState[i] = "running"
    /\ pc = NStmts[i] + 1
    /\ cellState' = [cellState EXCEPT ![i] = "done"]
    /\ pc' = 0
    /\ UNCHANGED <<kernelCount, execution_count, bound, ns, outputs, lastStmt, src, calls>>
    /\ UNCHANGED <<scriptVars, installVars>>

(* variant: a failed library call is made again *)
Raise_retry(i) ==
    /\ cellState[i] = "running"
    /\ pc <= NStmts[i]
    /\ ~Ok(i, pc) \/ <<i, pc>> \in MayFail
    /\ calls' = IF Invoked(i, pc) THEN Called(i, pc) ELSE calls
    /\ lastStmt' = <<i, pc>>
    /\ IF <<i, pc>> \in MayFail /\ Invoked(i, pc)
       THEN UNCHANGED <<cellState, pc>>
       ELSE cellState' = [cellState EXCEPT ![i] = "error"] /\ pc' = 0
    /\ UNCHANGED <<kernelCount, execution_count, bound, ns, outputs, src>>
    /\ UNCHANGED <<scriptVars, installVars>>

(* a statement raises: the cell stops there and no later statement runs *)
Raise(i) ==
    /\ cellState[i] = "running"
    /\ pc <= NStmts[i]
    /\ ~Ok(i, pc) \/ <<i, pc>> \in MayFail
    /\ cellState' = [cellState EXCEPT ![i] = "error"]
    /\ pc' = 0
    /\ lastStmt' = <<i, pc>>
    /\ calls' = IF Invoked(i, pc) THEN Called(i, pc) ELSE calls
    /\ UNCHANGED <<kernelCount, execution_count, bound, ns, outputs, src>>
    /\ UNCHANGED <<scriptVars, installVars>>

(* statement s of cell c runs to its end and binds the names ws *)
Step(c, s, ws) ==
    /\ cellState[c] = "running"
    /\ pc = s
    /\ Ok(c, s)
    /\ pc' = s + 1
    /\ bound' = bound \cup ws
    /\ lastStmt' = <<c, s>>
    /\ calls' = Called(c, s)
    /\ UNCHANGED <<cellState, kernelCount, execution_count, src>>
    /\ UNCHANGED <<scriptVars, installVars>>

(* cell 1 *)
ImportNumpy == Step(1, 1, {"np"}) /\ UNCHANGED <<ns, outputs>>

ImportQiskit ==
    /\ Step(1, 2, {"ClassicalRegister", "QuantumCircuit", "execute", "Aer"})
    /\ UNCHANGED <<ns, outputs>>

ImportPlot == Step(1, 3, {"plot_histogram"}) /\ UNCHANGED <<ns, outputs>>

(* cell 2 *)
DefineF ==
    /\ Step(2, 1, {"F"})
    /\ ns' = [ns EXCEPT !.F = np_matrix(src.F)]
    /\ UNCHANGED outputs

PrintRank ==
    /\ Step(2, 2, {})
    /\ outputs' = [outputs EXCEPT !.rank = matrix_rank(ns.F)]
    /\ UNCHANGED ns

DefineY ==
    /\ Step(2, 3, {"y"})
    /\ ns' = [ns EXCEPT !.y = np_array(src.y)]
    /\ UNCHANGED outputs

ResizeY ==
    /\ Step(2, 4, {})
    /\ ns' = [ns EXCEPT !.y = resize(ns.y, y_shape)]
    /\ UNCHANGED outputs

PrintF ==
    /\ Step(2, 5, {})
    /\ outputs' = [outputs EXCEPT !.F = ns.F]
    /\ UNCHANGED ns

PrintY ==
    /\ Step(2, 6, {})
    /\ outputs' = [outputs EXCEPT !.y = ns.y]
    /\ UNCHANGED ns

(* cell 3 *)
ComputeA ==
    /\ Step(3, 1, {"A"})
    /\ ns' = [ns EXCEPT !.A = matmul(getH(ns.F), ns.F)]
    /\ UNCHANGED outputs

PadA ==
    /\ Step(3, 2, {"A"})
    /\ ns' = [ns EXCEPT !.A = np_pad(ns.A, PadRows, PadCols)]
    /\ UNCHANGED outputs

SetCorner ==
    /\ Step(3, 3, {})
    /\ ns' = [ns EXCEPT !.A = setitem_last_last(ns.A, One)]
    /\ UNCHANGED outputs

ComputeB ==
    /\ Step(3, 4, {"b"})
    /\ ns' = [ns EXCEPT !.b = matmul(getH(ns.F), ns.y)]
    /\ UNCHANGED outputs

PadB ==
    /\ Step(3, 5, {"b"})
    /\ ns' = [ns EXCEPT !.b = vstack(ns.b, np_array(b_pad))]
    /\ UNCHANGED outputs

(* cell 4 *)
ImportHHL == Step(4, 1, {"HHL"}) /\ UNCHANGED <<ns, outputs>>

GetBackend == Step(4, 2, {"backend"}) /\ UNCHANGED <<ns, outputs>>

MakeHHL == Step(4, 3, {"hhl"}) /\ UNCHANGED <<ns, outputs>>

Solve ==
    /\ Step(4, 4, {"accurate_solution"})
    /\ ns' = [ns EXCEPT !.accurate_solution = hhl_solve(ns.A, ns.b)]
    /\ UNCHANGED outputs

(* cell 5 *)
SetShots ==
    /\ Step(5, 1, {"nShots"})
    /\ ns' = [ns EXCEPT !.nShots = ShotsBound]
    /\ UNCHANGED outputs

(* cell 6 *)
MakeRegister ==
    /\ Step(6, 1, {"c"})
    /\ ns' = [ns EXCEPT !.c = RegisterSize]
    /\ UNCHANGED outputs

MakeCircuit ==
    /\ Step(6, 2, {"qc"})
    /\ ns' = [ns EXCEPT !.qc = ns.c]
    /\ UNCHANGED outputs

TakeState ==
    /\ Step(6, 3, {"lambda_circ"})
    /\ ns' = [ns EXCEPT !.lambda_circ = solution_state(ns.accurate_solution)]
    /\ UNCHANGED outputs

Compose ==
    /\ Step(6, 4, {"lambda_circ"})
    /\ ns' = [ns EXCEPT !.lambda_circ = compose(ns.lambda_circ, ns.qc)]
    /\ UNCHANGED outputs

Measure ==
    /\ Step(6, 5, {})
    /\ ns' = [ns EXCEPT !.lambda_circ = measure(ns.lambda_circ, MeasuredQubits)]
    /\ UNCHANGED outputs

GetQasmBackend == Step(6, 6, {"backend_qasm"}) /\ UNCHANGED <<ns, outputs>>

Execute ==
    /\ Step(6, 7, {"res"})
    /\ \E r \in execute(ns.lambda_circ, ns.nShots) : ns' = [ns EXCEPT !.res = r]
    /\ UNCHANGED outputs

GetCounts ==
    /\ Step(6, 8, {"counts"})
    /\ ns' = [ns EXCEPT !.counts = get_counts(ns.res)]
    /\ UNCHANGED outputs

PlotHistogram ==
    /\ Step(6, 9, {})
    /\ ns' = [ns EXCEPT !.counts = plot_histogram(ns.counts).counts]
    /\ outputs' = [outputs EXCEPT !.figure = plot_histogram(ns.counts).bars, !.shown = TRUE]

Next ==
    \/ \E i \in Cells : StartCell(i)
    \/ \E i \in Cells : FinishCell(i)
    \/ \E i \in Cells : Raise(i)
    \/ ImportNumpy \/ ImportQiskit \/ ImportPlot
    \/ DefineF \/ PrintRank \/ DefineY \/ ResizeY \/ PrintF \/ PrintY
    \/ ComputeA \/ PadA \/ SetCorner \/ ComputeB \/ PadB
    \/ ImportHHL \/ GetBackend \/ MakeHHL \/ Solve
    \/ SetShots
    \/ MakeRegister \/ MakeCircuit \/ TakeState \/ Compose \/ Measure
    \/ GetQasmBackend \/ Execute \/ GetCounts \/ PlotHistogram

Spec == Init /\ [][Next]_vars

(* the notebook with other literals for F and y: fewer columns, dependent  *)
(* columns, a zero y                                                       *)
F_two_columns == <<<<One, One>>, <<Zero, Zero>>, <<One, Zero>>, <<Half, One>>>>
F_one_column == <<<<One>>, <<Zero>>, <<One>>, <<Half>>>>
F_dependent == <<<<One, One, One>>, <<Zero, Zero, Zero>>, <<One, One, Zero>>, <<Half, Half, Zero>>>>
y_zero == <<Zero, Zero, Zero, Zero>>

InputF == {F_literal, F_two_columns, F_one_column, F_dependent}
InputY == {y_literal, y_zero}

InitAnyInput ==
    /\ \E f \in InputF : \E v \in InputY : NotebookInit([F |-> f, y |-> v])
    /\ ScriptIdle
    /\ InstallIdle

SpecAnyInput == InitAnyInput /\ [][Next]_vars

(* ----------------- the notebook, cells run in any order ---------------- *)
(* cells submitted by hand, in whatever order, in one kernel session *)
MaxRuns == 3

(* the names statement s of cell c assigns or imports *)
Binds(c, s) ==
    CASE c = 1 -> CASE s = 1 -> {"np"}
                    [] s = 2 -> {"ClassicalRegister", "QuantumCircuit", "execute", "Aer"}
                    [] OTHER -> {"plot_histogram"}
      [] c = 2 -> CASE s = 1 -> {"F"}
                    [] s = 3 -> {"y"}
                    [] OTHER -> {}
      [] c = 3 -> CASE s = 1 -> {"A"}
                    [] s = 2 -> {"A"}
                    [] s = 4 -> {"b"}
                    [] s = 5 -> {"b"}
                    [] OTHER -> {}
      [] c = 4 -> CASE s = 1 -> {"HHL"}
                    [] s = 2 -> {"backend"}
                    [] s = 3 -> {"hhl"}
                    [] OTHER -> {"accurate_solution"}
      [] c = 5 -> {"nShots"}
      [] OTHER -> CASE s = 1 -> {"c"}
                    [] s = 2 -> {"qc"}
                    [] s = 3 -> {"lambda_circ"}
                    [] s = 4 -> {"lambda_circ"}
                    [] s = 6 -> {"backend_qasm"}
                    [] s = 7 -> {"res"}
                    [] s = 8 -> {"counts"}
                    [] OTHER -> {}

(* the kernel runs whichever cell is submitted when it is idle: a cell     *)
(* that has not run, or one whose last run raised; the names bound so far  *)
(* stay bound                                                              *)
CanRun(i) ==
    /\ \A j \in Cells : cellState[j] # "running"
    /\ cellState[i] \in {"idle", "error"}
    /\ kernelCount < MaxRuns

RunCell(i) ==
    /\ CanRun(i)
    /\ cellState' = [cellState EXCEPT ![i] = "running"]
    /\ pc' = 1
    /\ kernelCount' = kernelCount + 1
    /\ execution_count' = [execution_count EXCEPT ![i] = kernelCount + 1]
    /\ UNCHANGED <<bound, ns, outputs, lastStmt, src, calls, scriptVars, installVars>>

NextAnyOrder == (\E i \in Cells : RunCell(i)) \/ Next

SpecAnyOrder == Init /\ [][NextAnyOrder]_vars

(* ------------------------ my_vscode_extensions.sh ---------------------- *)
(* The script, line by line.  A line is the sequence of its words (split   *)
(* at blanks) and a word the sequence of its parts between dots, so that   *)
(* publisher.name is <<publisher, name>>.                                  *)
script_lines ==
    << <<<<"#">>, <<"Export">>, <<"VS">>, <<"Code">>, <<"packages">>, <<"on">>, <<"PowerShell">>, <<"using">>, <<"code">>, <<"--list-extensions">>, <<"|">>, <<"%">>, <<"{">>, <<"\"code">>, <<"--install-extension">>, <<"$_\"">>, <<"}">>>>,
       <<<<"#">>, <<"Install">>, <<"all">>, <<"of">>, <<"the">>, <<"VS">>, <<"Code">>, <<"extensions">>, <<"below">>, <<"on">>, <<"bash">>, <<"or">>, <<"git">>, <<"bash">>, <<"with">>, <<"bash">>, <<"my_vscode_extensions", "sh">>>>,
       <<>>,
       <<<<"#">>, <<"ADDING">>, <<"A">>, <<"COMMENT">>>>,
       <<>>,
       <<<<"code">>, <<"--install-extension">>, <<"codezombiech", "gitignore">>>>,
       <<<<"code">>, <<"--install-extension">>, <<"ctctklfh", "conda-env-activator">>>>,
       <<<<"code">>, <<"--install-extension">>, <<"donjayamanne", "git-extension-pack">>>>,
       <<<<"code">>, <<"--install-extension">>, <<"donjayamanne", "githistory">>>>,
       <<<<"code">>, <<"--install-extension">>, <<"eamodio", "gitlens">>>>,
       <<<<"code">>, <<"--install-extension">>, <<"felipecaputo", "git-project-manager">>>>,
       <<<<"code">>, <<"--install-extension">>, <<"github", "copilot">>>>,
       <<<<"code">>, <<"--install-extension">>, <<"github", "copilot-chat">>>>,
       <<<<"code">>, <<"--install-extension">>, <<"jojoee", "conda-cheatsheet">>>>,
       <<<<"code">>, <<"--install-extension">>, <<"mccarter", "start-git-bash">>>>,
       <<<<"code">>, <<"--install-extension">>, <<"ms-ceintl", "vscode-language-pack-es">>>>,
       <<<<"code">>, <<"--install-extension">>, <<"ms-python", "debugpy">>>>,
       <<<<"code">>, <<"--install-extension">>, <<"ms-python", "python">>>>,
       <<<<"code">>, <<"--install-extension">>, <<"ms-python", "vscode-pylance">>>>,
       <<<<"code">>, <<"--install-extension">>, <<"ms-toolsai", "jupyter">>>>,
       <<<<"code">>, <<"--install-extension">>, <<"ms-toolsai", "jupyter-keymap">>>>,
       <<<<"code">>, <<"--install-extension">>, <<"ms-toolsai", "jupyter-renderers">>>>,
       <<<<"code">>, <<"--install-extension">>, <<"ms-toolsai", "vscode-jupyter-cell-tags">>>>,
       <<<<"code">>, <<"--install-extension">>, <<"ms-toolsai", "vscode-jupyter-slideshow">>>>,
       <<<<"code">>, <<"--install-extension">>, <<"phind", "phind">>>>,
       <<<<"code">>, <<"--install-extension">>, <<"slightc", "pip-manager">>>>,
       <<<<"code">>, <<"--install-extension">>, <<"ziyasal", "vscode-open-in-github">>>> >>

(* variant: line 7 repeats the command of line 6 *)
script_repeated_line ==
    [script_lines EXCEPT ![7] = script_lines[6]]

(* variant: line 12 names the extension without its publisher *)
script_bare_name ==
    [script_lines EXCEPT ![12] = <<<<"code">>, <<"--install-extension">>, <<"copilot">>>>]

script == script_lines

(* failed installs followed up in one run *)
MaxFailures == 2

(* what the editor may have installed before the run *)
InitialInstalled == {{}, {<<"ms-python", "python">>}, {<<"vscodevim", "vim">>}}

IsBlank(line) == Len(line) = 0

(* bash: a word beginning with # starts a comment; here the word is "#" *)
IsComment(line) == Len(line) > 0 /\ line[1] = <<"#">>

(* code --install-extension <publisher>.<name>, and nothing else *)
IsInstallCommand(line) ==
    /\ Len(line) = 3
    /\ line[1] = <<"code">>
    /\ line[2] = <<"--install-extension">>
    /\ Len(line[3]) = 2
    /\ line[3][1] # "" /\ line[3][2] # ""

ExtId(line) == line[3]

(* variant: installing an extension replaces what was installed *)
code_install_extension_replacing(inst, id) == {id}

(* variant: installing an extension that is installed removes it *)
code_install_extension_toggling(inst, id) ==
    IF id \in inst THEN inst \ {id} ELSE inst \cup {id}

(* code --install-extension id, succeeding: id is added to the installed   *)
(* extensions, those already there are kept                                *)
code_install_extension(inst, id) == inst \cup {id}

InitScript ==
    /\ NotebookInit([F |-> F_literal, y |-> y_literal])
    /\ InstallIdle
    /\ scriptLine = 0
    /\ installed \in InitialInstalled
    /\ attempts = <<>>
    /\ failures = {}
    /\ run = 0
    /\ before = installed
    /\ failedEarlier = 0
    /\ exported = NoExport

(* bash my_vscode_extensions.sh; before is what the editor has installed   *)
(* when the run starts                                                     *)
StartScript ==
    /\ scriptLine = 0
    /\ scriptLine' = 1
    /\ run' = 1
    /\ before' = installed
    /\ UNCHANGED <<installed, attempts, failures, failedEarlier, exported, nbVars, installVars>>

AtLine == scriptLine >= 1 /\ scriptLine <= Len(script)

(* a blank line or a comment: nothing runs *)
SkipLine ==
    /\ AtLine
    /\ IsBlank(script[scriptLine]) \/ IsComment(script[scriptLine])
    /\ scriptLine' = scriptLine + 1
    /\ UNCHANGED <<installed, attempts, failures, nbVars, installVars>>
    /\ UNCHANGED <<run, before, failedEarlier, exported>>

(* an install command that succeeds *)
InstallOk ==
    /\ AtLine
    /\ IsInstallCommand(script[scriptLine])
    /\ installed' = code_install_extension(installed, ExtId(script[scriptLine]))
    /\ attempts' = Append(attempts, ExtId(script[scriptLine]))
    /\ scriptLine' = scriptLine + 1
    /\ UNCHANGED <<failures, nbVars, installVars>>
    /\ UNCHANGED <<run, before, failedEarlier, exported>>

(* variant: as under set -e, the script ends at the first failed command *)
InstallFail_exits ==
    /\ AtLine
    /\ IsInstallCommand(script[scriptLine])
    /\ Cardinality(failures) + failedEarlier < MaxFailures
    /\ failures' = failures \cup {ExtId(script[scriptLine])}
    /\ attempts' = Append(attempts, ExtId(script[scriptLine]))
    /\ scriptLine' = Len(script) + 1
    /\ UNCHANGED <<installed, nbVars, installVars>>
    /\ UNCHANGED <<run, before, failedEarlier, exported>>

(* an install command that fails: without set -e bash goes on to the next  *)
(* line                                                                    *)
InstallFail ==
    /\ AtLine
    /\ IsInstallCommand(script[scriptLine])
    /\ Cardinality(failures) + failedEarlier < MaxFailures
    /\ failures' = failures \cup {ExtId(script[scriptLine])}
    /\ attempts' = Append(attempts, ExtId(script[scriptLine]))
    /\ scriptLine' = scriptLine + 1
    /\ UNCHANGED <<installed, nbVars, installVars>>
    /\ UNCHANGED <<run, before, failedEarlier, exported>>

ScriptDone == scriptLine = Len(script) + 1

NextScript == StartScript \/ SkipLine \/ InstallOk \/ InstallFail

SpecScript == InitScript /\ [][NextScript]_vars

(* bash runs the lines one after another, and each command returns *)
SpecScriptFair == InitScript /\ [][NextScript]_vars /\ WF_vars(NextScript)

(* ------------- the script run again, and the editor exported ----------- *)
(* runs of the script in one session *)
MaxScriptRuns == 2

(* bash my_vscode_extensions.sh once more, after a run has ended *)
RunAgain ==
    /\ ScriptDone
    /\ run < MaxScriptRuns
    /\ ~exported.done
    /\ scriptLine' = 1
    /\ run' = run + 1
    /\ before' = installed
    /\ attempts' = <<>>
    /\ failures' = {}
    /\ failedEarlier' = failedEarlier + Cardinality(failures)
    /\ UNCHANGED <<installed, exported, nbVars, installVars>>

(* variant: code --list-extensions --show-versions, each identifier        *)
(* followed by @ and a version, whose dots add parts to the word           *)
list_extensions_show_versions(inst) == {id \o <<"0">> : id \in inst}

(* code --list-extensions: the identifiers of the installed extensions,    *)
(* one per line                                                            *)
list_extensions(inst) == inst

(* % { "code --install-extension $_" }: the line made of an identifier *)
export_line(id) == <<<<"code">>, <<"--install-extension">>, id>>

(* the header's command, run in the editor's shell after a run *)
Export ==
    /\ ScriptDone
    /\ ~exported.done
    /\ exported' = [done |-> TRUE, lines |-> {export_line(id) : id \in list_extensions(installed)}]
    /\ UNCHANGED <<scriptLine, installed, attempts, failures, run, before, failedEarlier>>
    /\ UNCHANGED <<nbVars, installVars>>

NextScriptSession == NextScript \/ RunAgain \/ Export

SpecScriptSession == InitScript /\ [][NextScriptSession]_vars

(* ------------------- README.md / homework.md, section 4 ---------------- *)
(* The documented installation, one step per command in the order of the   *)
(* text.  A step is a record: the command, the environment and package     *)
(* manager it names, its packages, and whether its command line is one     *)
(* the tool can parse.                                                     *)
CondaEnv == ".conda"

CreateStep ==
    [cmd |-> "create", env |-> CondaEnv, manager |-> "conda",
     packages |-> {"python", "pip"}, wellformed |-> TRUE]

ActivateStep ==
    [cmd |-> "activate", env |-> CondaEnv, manager |-> "conda",
     packages |-> {}, wellformed |-> TRUE]

PipStep(ps) ==
    [cmd |-> "install", env |-> "", manager |-> "pip", packages |-> ps, wellformed |-> TRUE]

CondaInstallStep(ps) ==
    [cmd |-> "install", env |-> "", manager |-> "conda", packages |-> ps, wellformed |-> TRUE]

KernelStep ==
    [cmd |-> "kernel", env |-> CondaEnv, manager |-> "python",
     packages |-> {"ipykernel"}, wellformed |-> TRUE]

(* variant: the environment is activated after the first pip install *)
README_steps_activate_late ==
    << CreateStep,
       PipStep({"numpy", "scipy", "matplotlib", "ipykernel"}),
       ActivateStep,
       PipStep({"qiskit"}),
       PipStep({"ipykernel"}),
       KernelStep,
       PipStep({"matplotlib", "pylatexenc", "ipywidgets"}) >>

(* variant: the kernel is registered before pip install ipykernel *)
README_steps_kernel_first ==
    << CreateStep,
       ActivateStep,
       PipStep({"numpy", "scipy", "matplotlib", "ipykernel"}),
       PipStep({"qiskit"}),
       KernelStep,
       PipStep({"ipykernel"}),
       PipStep({"matplotlib", "pylatexenc", "ipywidgets"}) >>

(* variant: ipykernel installed with conda in section 4.3 *)
README_steps_conda_ipykernel ==
    << CreateStep,
       ActivateStep,
       PipStep({"numpy", "scipy", "matplotlib", "ipykernel"}),
       PipStep({"qiskit"}),
       CondaInstallStep({"ipykernel"}),
       KernelStep,
       PipStep({"matplotlib", "pylatexenc", "ipywidgets"}) >>

(* README.md: 4.1 create and activate, 4.2 the scientific packages and     *)
(* qiskit==0.40.0, 4.3 ipykernel, the kernel, matplotlib and the rest      *)
README_steps ==
    << CreateStep,
       ActivateStep,
       PipStep({"numpy", "scipy", "matplotlib", "ipykernel"}),
       PipStep({"qiskit"}),
       PipStep({"ipykernel"}),
       KernelStep,
       PipStep({"matplotlib", "pylatexenc", "ipywidgets"}) >>

(* homework.md: the same without the scientific packages step; its last    *)
(* command, pip install matplotlib, pylatexenc, has a comma pip rejects    *)
homework_steps ==
    << CreateStep,
       ActivateStep,
       PipStep({"qiskit"}),
       PipStep({"ipykernel"}),
       KernelStep,
       [PipStep({"matplotlib", "pylatexenc"}) EXCEPT !.wellformed = FALSE] >>

Docs == {"README", "homework"}

Steps(d) == IF d = "README" THEN README_steps ELSE homework_steps

InitInstall ==
    /\ NotebookInit([F |-> F_literal, y |-> y_literal])
    /\ ScriptIdle
    /\ doc \in Docs
    /\ stepNo = 1
    /\ envs = {"base"}
    /\ active = "base"
    /\ pkgs = {}
    /\ kernels = {}
    /\ history = <<>>

AtStep(cmd) ==
    /\ doc \in Docs
    /\ stepNo >= 1 /\ stepNo <= Len(Steps(doc))
    /\ Steps(doc)[stepNo].cmd = cmd

CurrentStep == Steps(doc)[stepNo]

(* the step's command can succeed in the present state *)
CanSucceed(st) ==
    /\ st.wellformed
    /\ st.cmd = "activate" => st.env \in envs
    /\ st.cmd = "kernel" => \E t \in pkgs : t[1] = active /\ t[2] = "ipykernel"

Advance(outcome) ==
    /\ stepNo' = stepNo + 1
    /\ history' = Append(history, outcome)
    /\ UNCHANGED <<doc, nbVars, scriptVars>>

(* 4.1: the conda environment is created; conda puts python and pip in it *)
CreateEnvOk ==
    /\ AtStep("create")
    /\ CanSucceed(CurrentStep)
    /\ envs' = envs \cup {CurrentStep.env}
    /\ pkgs' = pkgs \cup {<<CurrentStep.env, q, CurrentStep.manager>> : q \in CurrentStep.packages}
    /\ Advance("ok")
    /\ UNCHANGED <<active, kernels>>

(* conda activate .conda *)
ActivateOk ==
    /\ AtStep("activate")
    /\ CanSucceed(CurrentStep)
    /\ active' = CurrentStep.env
    /\ Advance("ok")
    /\ UNCHANGED <<envs, pkgs, kernels>>

(* pip install ...: the packages go into the active environment *)
PackageInstallOk ==
    /\ AtStep("install")
    /\ CanSucceed(CurrentStep)
    /\ pkgs' = pkgs \cup {<<active, q, CurrentStep.manager>> : q \in CurrentStep.packages}
    /\ Advance("ok")
    /\ UNCHANGED <<envs, active, kernels>>

(* python -m ipykernel install --user --name .conda *)
KernelInstallOk ==
    /\ AtStep("kernel")
    /\ CanSucceed(CurrentStep)
    /\ kernels' = kernels \cup {CurrentStep.env}
    /\ Advance("ok")
    /\ UNCHANGED <<envs, active, pkgs>>

(* a command fails and changes nothing; the text goes on to the next step *)
StepFail ==
    /\ doc \in Docs
    /\ stepNo >= 1 /\ stepNo <= Len(Steps(doc))
    /\ Advance("failed")
    /\ UNCHANGED <<envs, active, pkgs, kernels>>

NextInstall == CreateEnvOk \/ ActivateOk \/ PackageInstallOk \/ KernelInstallOk \/ StepFail

SpecInstall == InitInstall /\ [][NextInstall]_vars

(* ------------------------------ properties ----------------------------- *)
Bound(n) == n \in bound

(* the run of cell c has come to its statement s *)
Reached(c, s) ==
    \/ cellState[c] = "running" /\ pc >= s
    \/ cellState[c] = "done"
    \/ cellState[c] = "error" /\ lastStmt[1] = c /\ lastStmt[2] >= s

StageStarted(k) ==
    CASE k = 1 -> Reached(2, 1)
      [] k = 2 -> Reached(3, 1)
      [] k = 3 -> Reached(4, 4)
      [] k = 4 -> Reached(6, 7)
      [] OTHER -> Reached(6, 9)

StageCompleted(k) ==
    CASE k = 1 -> cellState[2] = "done"
      [] k = 2 -> cellState[3] = "done"
      [] k = 3 -> Bound("accurate_solution")
      [] k = 4 -> Bound("res")
      [] OTHER -> outputs.shown

(* C1: the five stages (construct F and y; build and pad A and b; call     *)
(* hhl.solve; execute the measured circuit; render the histogram) happen   *)
(* in this order: a stage is started only when the stage before it has     *)
(* completed, and once the histogram is rendered every stage has completed *)
C1_StagesInOrder ==
    /\ \A k \in 2..5 : StageStarted(k) => StageCompleted(k - 1)
    /\ outputs.shown => \A k \in 1..5 : StageCompleted(k)

C1_Witness == outputs.shown /\ cellState[6] = "done" /\ outputs.figure = ns.counts

(* C2: A = F^H F is 3x3 when the padding statement is reached; once the    *)
(* padding cell has finished, and when hhl.solve is called, A is square    *)
(* of dimension 4, a power of 2, and b has shape 4x1                       *)
C2_PaddedShapes ==
    /\ (cellState[3] = "running" /\ pc = 2) => ns.A.shape = <<3, 3>>
    /\ (cellState[3] = "done") =>
          /\ ns.A.shape = <<4, 4>>
          /\ IsPow2(Rows(ns.A))
          /\ ns.b.shape = <<4, 1>>

C2_Witness == cellState[3] = "done" /\ cellState[4] = "idle" /\ ns.A.shape = <<4, 4>>

(* C3: every shot's outcome is one of 00, 01, 10 and counts has no         *)
(* entry for 11                                                            *)
C3_NeverOneOne ==
    /\ Bound("res") => \A s \in 1..Len(ns.res) : Key(ns.res[s]) \in {<<0, 0>>, <<0, 1>>, <<1, 0>>}
    /\ Bound("counts") => <<1, 1>> \notin DOMAIN ns.counts

C3_Witness ==
    /\ Bound("counts")
    /\ DOMAIN ns.counts = {<<0, 0>>, <<0, 1>>, <<1, 0>>}
    /\ ns.b.data[4] = Zero

(* C4: the 4x3 matrix F has rank 3, and the rank the cell prints is 3 *)
C4_RankThree ==
    /\ Bound("F") => ns.F.shape = <<4, 3>> /\ matrix_rank(ns.F) = 3
    /\ outputs.rank # 0 - 1 => outputs.rank = 3

C4_Witness == Bound("F") /\ outputs.rank = 3

(* C5: y is not a linear combination of the columns of F: appending y to   *)
(* F as a fourth column raises the rank, which is the case exactly when    *)
(* F c = y has no solution c                                               *)
C5_YNotInSpan ==
    (Bound("F") /\ Bound("y")) =>
        /\ ns.y.data = <<Zero, Zero, One, Zero>>
        /\ matrix_rank(Augment(ns.F, ns.y)) > matrix_rank(ns.F)

C5_Witness == Bound("F") /\ Bound("y") /\ ns.y.shape = <<4, 1>> /\ cellState[2] = "done"

(* C6: every matrix bound to a name (F, A) and F^H has at most 4 rows and  *)
(* at most 5 columns, and every vector (y, b) has at most 4 entries        *)
C6_SizeLimits ==
    /\ Bound("F") => /\ Rows(ns.F) <= 4 /\ Cols(ns.F) <= 5
                     /\ Rows(getH(ns.F)) <= 4 /\ Cols(getH(ns.F)) <= 5
    /\ Bound("A") => Rows(ns.A) <= 4 /\ Cols(ns.A) <= 5
    /\ Bound("y") => Len(ns.y.data) <= 4
    /\ Bound("b") => Len(ns.b.data) <= 4

C6_Witness ==
    /\ Bound("A") /\ Bound("b")
    /\ Rows(ns.A) = 4 /\ Cols(ns.A) = 4 /\ Len(ns.b.data) = 4
    /\ cellState[3] = "running"

(* C7: when a matrix operation is reached its operands conform: F^H * F    *)
(* and F^H * y have 4 columns on the left and 4 rows on the right, b and   *)
(* [0] are stacked with 1 column each, and hhl.solve gets A and b with     *)
(* rows(A) = cols(A) = rows(b)                                             *)
C7_Conformable ==
    /\ (cellState[3] = "running" /\ pc = 1 /\ Bound("F")) =>
          Cols(getH(ns.F)) = 4 /\ Rows(ns.F) = 4
    /\ (cellState[3] = "running" /\ pc = 4 /\ Bound("F") /\ Bound("y")) =>
          Cols(getH(ns.F)) = 4 /\ Rows(atleast_2d(ns.y)) = 4
    /\ (cellState[3] = "running" /\ pc = 5 /\ Bound("b")) =>
          Cols(atleast_2d(ns.b)) = 1 /\ Cols(atleast_2d(np_array(b_pad))) = 1
    /\ (cellState[4] = "running" /\ pc = 4 /\ Bound("A") /\ Bound("b")) =>
          Rows(ns.A) = Cols(ns.A) /\ Cols(ns.A) = Rows(ns.b)

C7_Witness ==
    /\ cellState[4] = "running" /\ pc = 4
    /\ Rows(ns.A) = Rows(ns.b)
    /\ ns.y.shape = <<4, 1>>

(* the execution counters stored in the notebook file, in document order *)
recorded_execution_count == <<1, 3, 4, 5, 6, 7>>

Increasing(seq) == \A i, j \in DOMAIN seq : i < j => seq[i] < seq[j]

C9_CountsMapping ==
    Bound("counts") =>
        /\ \A k \in DOMAIN ns.counts :
              /\ Len(k) = 2 /\ Len(k) = ns.c
              /\ \A j \in 1..Len(k) : k[j] \in {0, 1}
              /\ ns.counts[k] \in Nat \ {0}
        /\ Cardinality(DOMAIN ns.counts) = Cardinality({ns.res[s] : s \in 1..Len(ns.res)})

C9_Witness ==
    /\ Bound("counts")
    /\ Cardinality(DOMAIN ns.counts) = 2
    /\ \E k \in DOMAIN ns.counts : ns.counts[k] > 1

(* C10: counts is bound by res.get_counts() alone, no later step changes   *)
(* it, and the only step that reads it is plot_histogram(counts)           *)
C10_CountsFrame ==
    [][/\ Bound("counts") => ns'.counts = ns.counts
       /\ (ns'.counts # ns.counts \/ bound' \ bound = {"counts"}) => lastStmt' = <<6, 8>>
       /\ (lastStmt' # lastStmt /\ "counts" \in Reads(lastStmt'[1], lastStmt'[2])) =>
             lastStmt' = <<6, 9>>]_vars

C10_Witness ==
    /\ lastStmt = <<6, 9>>
    /\ Bound("counts")
    /\ ns.counts = get_counts(ns.res)
    /\ outputs.figure = ns.counts

(* C13: hhl.solve and execute are each called at most once in a run; when  *)
(* the call fails the cell stops: the name the call would have bound       *)
(* stays unbound, nothing stands in for its result and no later step runs  *)
C13_NoRetry ==
    /\ calls.solve <= 1
    /\ calls.execute <= 1
    /\ (cellState[4] = "error" /\ lastStmt = <<4, 4>>) =>
          /\ ~Bound("accurate_solution") /\ ns.accurate_solution = NoSolution
          /\ cellState[5] = "idle" /\ cellState[6] = "idle"
          /\ calls.execute = 0
    /\ (cellState[6] = "error" /\ lastStmt = <<6, 7>>) =>
          /\ ~Bound("res") /\ ns.res = <<>>
          /\ ~Bound("counts") /\ ns.counts = NoCounts
          /\ ~outputs.shown

C13_Witness ==
    /\ cellState[6] = "error" /\ lastStmt = <<6, 7>>
    /\ calls.solve = 1 /\ calls.execute = 1

(* the run of cell 4 has gone through its call of hhl.solve *)
PastSolve ==
    \/ cellState[4] = "done"
    \/ cellState[4] = "running" /\ pc > 4
    \/ cellState[4] = "error" /\ lastStmt = <<4, 4>>

(* C14: whatever F and y are, once the run reaches hhl.solve(A, b) the     *)
(* call is made, also with operands the solver rejects, and its arguments  *)
(* are the A and b the padding cell computed from F and y                  *)
C14_NoValidation ==
    PastSolve =>
        /\ calls.solve = 1
        /\ calls.A = ns.A /\ calls.b = ns.b
        /\ calls.A = setitem_last_last(np_pad(matmul(getH(ns.F), ns.F), PadRows, PadCols), One)
        /\ calls.b = vstack(matmul(getH(ns.F), ns.y), np_array(b_pad))

C14_Witness ==
    /\ cellState[4] = "error" /\ lastStmt = <<4, 4>>
    /\ calls.solve = 1
    /\ ~SolveAccepts(calls.A, calls.b)
    /\ calls.A.shape = <<3, 3>>

(* the normal equations of the fit: (F^H F) lambda = F^H y *)
NormalA == matmul(getH(ns.F), ns.F)
Normalb == matmul(getH(ns.F), ns.y)

(* vectors tried against both systems: the padded system's solution, the   *)
(* fit parameters followed by 0 and by 1, each moved by 1 in one           *)
(* component, and the 0/1 vectors                                          *)
Candidates ==
    LET xs == Cramer(ns.A, ns.b)
        fit == Cramer(NormalA, Normalb)
        base == {xs, fit \o <<Zero>>, fit \o <<One>>}
    IN  base \cup {[x EXCEPT ![k] = RAdd(@, One)] : x \in base, k \in 1..4}
             \cup [1..4 -> {Zero, One}]

(* C19: x solves the padded system A x = b exactly when (x0, x1, x2)       *)
(* solves the normal equations and x3 = 0; the normal equations have one   *)
(* solution, lambda = F^+ y, so the padded system's solution is lambda     *)
(* followed by 0.  Stated of A and b from the end of the padding cell up   *)
(* to the call of hhl.solve; no later statement assigns them.              *)
C19_PaddingPreservesFit ==
    (cellState[3] = "done" /\ ~PastSolve) =>
        /\ Det(NormalA) # Zero /\ Det(ns.A) # Zero
        /\ \A x \in Candidates :
              Solves(ns.A, ns.b, x) <=>
                  (Solves(NormalA, Normalb, SubSeq(x, 1, 3)) /\ x[4] = Zero)
        /\ Solves(ns.A, ns.b, Cramer(ns.A, ns.b))
        /\ Cramer(ns.A, ns.b) = Cramer(NormalA, Normalb) \o <<Zero>>

C19_Witness ==
    /\ cellState[3] = "done" /\ cellState[4] = "running" /\ pc = 4
    /\ Cramer(ns.A, ns.b) = <<<<12, 13>>, <<0 - 8, 13>>, <<0 - 2, 13>>, Zero>>

AfterCorner == (cellState[3] = "running" /\ pc >= 4) \/ cellState[3] = "done"

(* C20: the padding leaves the 3x3 block F^H F as it was, entry for        *)
(* entry; the added row and column are 0 after np.pad, and after           *)
(* A[-1][-1] = 1 the corner A[3][3] is 1 and the rest of them still 0      *)
C20_PaddingBlock ==
    /\ ((cellState[3] = "running" /\ pc = 3) \/ AfterCorner) =>
          /\ ns.A.shape = <<4, 4>>
          /\ \A i, j \in 1..3 : At2(ns.A, i, j) = At2(NormalA, i, j)
          /\ \A k \in 1..3 : At2(ns.A, 4, k) = Zero /\ At2(ns.A, k, 4) = Zero
    /\ (cellState[3] = "running" /\ pc = 3) => At2(ns.A, 4, 4) = Zero
    /\ AfterCorner => At2(ns.A, 4, 4) = One

C20_Witness ==
    /\ cellState[3] = "running" /\ pc = 4
    /\ At2(ns.A, 4, 4) = One /\ At2(ns.A, 4, 1) = Zero
    /\ At2(ns.A, 1, 1) = <<9, 4>>

(* C11: every line of the script that is neither blank nor a comment is    *)
(* one command code --install-extension <publisher>.<name> with exactly    *)
(* one identifier: the run never comes to a line of another form           *)
C11_OneCommandPerLine ==
    AtLine =>
        \/ IsBlank(script[scriptLine])
        \/ IsComment(script[scriptLine])
        \/ /\ IsInstallCommand(script[scriptLine])
           /\ Len(script[scriptLine]) = 3
           /\ Len(ExtId(script[scriptLine])) = 2

C11_Witness ==
    /\ scriptLine = 13
    /\ IsInstallCommand(script[scriptLine])
    /\ ExtId(script[scriptLine]) = <<"github", "copilot-chat">>
    /\ IsComment(script[4]) /\ IsBlank(script[5])

InstallLines == {l \in 1..Len(script) : IsInstallCommand(script[l])}

(* C12: a run of the script terminates, and when no install failed every   *)
(* one of the 22 identifiers the script lists is installed at its end      *)
C12_InstallsAll ==
    /\ <>ScriptDone
    /\ [](ScriptDone /\ failures = {} =>
            /\ Cardinality(InstallLines) = 22
            /\ \A l \in InstallLines : ExtId(script[l]) \in installed)

C12_Witness ==
    /\ ScriptDone /\ failures = {}
    /\ Len(attempts) = 22
    /\ <<"ziyasal", "vscode-open-in-github">> \in installed
    /\ <<"codezombiech", "gitignore">> \in installed

(* the steps of the followed text carried out so far *)
Executed == 1..(stepNo - 1)

IsPip(st) == st.cmd = "install" /\ st.manager = "pip"

(* C16: every pip install step comes after the step that creates the       *)
(* .conda environment and, after that, the step conda activate .conda;     *)
(* a package pip put anywhere but in .conda means the activation failed    *)
C16_ActivateBeforeInstall ==
    /\ \A k \in Executed : IsPip(Steps(doc)[k]) =>
          \E i, j \in Executed :
              /\ i < j /\ j < k
              /\ Steps(doc)[i].cmd = "create" /\ Steps(doc)[i].env = CondaEnv
              /\ Steps(doc)[j].cmd = "activate" /\ Steps(doc)[j].env = CondaEnv
    /\ \A t \in pkgs : (t[3] = "pip" /\ t[1] # CondaEnv) =>
          \E j \in Executed : Steps(doc)[j].cmd = "activate" /\ history[j] = "failed"

C16_Witness ==
    /\ doc = "README" /\ stepNo = 8
    /\ \A k \in 1..7 : history[k] = "ok"
    /\ <<CondaEnv, "qiskit", "pip">> \in pkgs
    /\ \A t \in pkgs : t[1] = CondaEnv

(* C17: the kernel is registered only after the step pip install          *)
(* ipykernel, and a registered kernel has ipykernel in its environment     *)
C17_KernelAfterIpykernel ==
    /\ \A k \in Executed : Steps(doc)[k].cmd = "kernel" =>
          \E j \in Executed :
              /\ j < k
              /\ IsPip(Steps(doc)[j]) /\ Steps(doc)[j].packages = {"ipykernel"}
    /\ kernels # {} => \E t \in pkgs : t[2] = "ipykernel" /\ t[3] = "pip"

C17_Witness ==
    /\ doc = "homework"
    /\ CondaEnv \in kernels
    /\ history[4] = "ok" /\ history[5] = "ok"

(* C18: no package is installed in one environment by both conda and pip,  *)
(* also when the steps install it more than once                           *)
C18_OneManagerPerPackage ==
    \A t, u \in pkgs : (t[1] = u[1] /\ t[2] = u[2]) => t[3] = u[3]

C18_Witness ==
    /\ doc = "README" /\ stepNo = 8
    /\ history[3] = "ok" /\ history[5] = "ok" /\ history[7] = "ok"
    /\ <<active, "ipykernel", "pip">> \in pkgs
    /\ <<active, "matplotlib", "pip">> \in pkgs
    /\ <<CondaEnv, "python", "conda">> \in pkgs

(* C21: A is symmetric whenever it is bound: as F^H F (3 x 3), after       *)
(* np.pad and after A[-1][-1] = 1 (4 x 4), and as handed to hhl.solve      *)
C21_Symmetric ==
    /\ Bound("A") =>
          /\ IsHermitian(ns.A)
          /\ \A i, j \in 1..Rows(ns.A) : At2(ns.A, i, j) = At2(ns.A, j, i)
    /\ (cellState[3] = "running" /\ pc = 2) => ns.A.shape = <<3, 3>>
    /\ AfterCorner => ns.A.shape = <<4, 4>>
    /\ calls.solve > 0 =>
          /\ calls.A.shape = <<4, 4>>
          /\ \A i, j \in 1..4 : At2(calls.A, i, j) = At2(calls.A, j, i)

C21_Witness ==
    /\ calls.solve = 1
    /\ calls.A.shape = <<4, 4>>
    /\ At2(calls.A, 1, 2) = At2(calls.A, 2, 1)
    /\ At2(calls.A, 1, 2) # Zero
    /\ At2(calls.A, 1, 2) # At2(calls.A, 1, 3)

(* the call of hhl.solve is the last statement carried out or raised *)
AtSolveCall == lastStmt = <<4, 4>> /\ calls.solve = 1

(* C22: the A handed to hhl.solve has a non-zero determinant (that of      *)
(* F^H F, the added corner being 1) and full rank, and A x = b has one     *)
(* solution: Cramer's x solves it and no other candidate does              *)
C22_NonSingular ==
    AtSolveCall =>
        /\ Det(calls.A) # Zero
        /\ Det(calls.A) = Det(Sub(calls.A, <<1, 2, 3>>, <<1, 2, 3>>))
        /\ matrix_rank(calls.A) = 4
        /\ matrix_rank(Augment(calls.A, calls.b)) = 4
        /\ \A x \in Candidates \cup {Cramer(calls.A, calls.b)} :
              Solves(calls.A, calls.b, x) <=> x = Cramer(calls.A, calls.b)

C22_Witness ==
    /\ AtSolveCall
    /\ cellState[4] = "running" /\ pc = 5
    /\ Det(calls.A) = <<13, 4>>

(* C23: once counts is bound its values sum to nShots: every shot of the   *)
(* result is under exactly one key                                         *)
C23_CountsSum ==
    Bound("counts") =>
        /\ SumOver(ns.counts, DOMAIN ns.counts) = ns.nShots
        /\ ns.nShots = ShotsBound
        /\ Len(ns.res) = ns.nShots
        /\ \A s \in 1..Len(ns.res) : Key(ns.res[s]) \in DOMAIN ns.counts

C23_Witness ==
    /\ Bound("counts")
    /\ Cardinality(DOMAIN ns.counts) = 3
    /\ SumOver(ns.counts, DOMAIN ns.counts) = ShotsBound
    /\ \E k \in DOMAIN ns.counts : ns.counts[k] > 1

(* the names cell c reads that no earlier statement of c binds *)
ExternalReads(c) ==
    UNION {Reads(c, s) \ UNION {Binds(c, t) : t \in 1..(s - 1)} : s \in 1..NStmts[c]}

(* the cells with a statement that binds n *)
Binders(n) == {d \in Cells : \E s \in 1..NStmts[d] : n \in Binds(d, s)}

(* every cell started so far was started once, after the cells before it  *)
(* in the document had run to their end                                    *)
InDocumentOrder ==
    /\ kernelCount = Cardinality({i \in Cells : cellState[i] # "idle"})
    /\ \A j \in Cells : cellState[j] # "idle" =>
          \A i \in 1..(j - 1) : cellState[i] = "done" /\ execution_count[i] < execution_count[j]

(* C24: in document order the statement a cell has come to reads only      *)
(* bound names, and a cell stops only at a library call that can fail;     *)
(* in any order, a cell runs to its end only if every name it reads from   *)
(* outside was bound by a cell that ran to its end before it, and a cell   *)
(* coming to a statement with an unbound name ends in an error there       *)
C24_NamesBound ==
    /\ [](InDocumentOrder =>
            /\ \A c \in Cells : (cellState[c] = "running" /\ pc <= NStmts[c]) =>
                  Reads(c, pc) \subseteq bound
            /\ \A c \in Cells : cellState[c] = "error" => lastStmt \in MayFail)
    /\ [](\A c \in Cells : cellState[c] = "done" =>
            \A n \in ExternalReads(c) : \E d \in Binders(n) :
                /\ d # c
                /\ cellState[d] = "done"
                /\ execution_count[d] < execution_count[c])
    /\ [][\A c \in Cells : (cellState[c] = "running" /\ pc <= NStmts[c]) =>
            /\ pc' = pc + 1 => (Reads(c, pc) \subseteq bound /\ bound' = bound \cup Binds(c, pc))
            /\ ~(Reads(c, pc) \subseteq bound) =>
                  (cellState'[c] = "error" /\ lastStmt' = <<c, pc>> /\ bound' = bound)]_vars

C24_Witness ==
    /\ cellState[1] = "done" /\ cellState[2] = "idle"
    /\ cellState[3] = "error" /\ lastStmt = <<3, 1>>
    /\ execution_count[3] = 2
    /\ ~Bound("F") /\ "F" \in ExternalReads(3)

(* the identifiers of the install commands on the first n lines, in order *)
IdsUpTo(n) ==
    LET cmds == SelectSeq(SubSeq(script, 1, n), IsInstallCommand)
    IN  [i \in 1..Len(cmds) |-> ExtId(cmds[i])]

Range(seq) == {seq[i] : i \in 1..Len(seq)}

C26_DistinctIds ==
    /\ Cardinality(InstallLines) = 22
    /\ \A l, m \in InstallLines : ExtId(script[l]) = ExtId(script[m]) => l = m
    /\ Cardinality({ExtId(script[l]) : l \in InstallLines}) = 22
    /\ \A i, j \in 1..Len(attempts) : attempts[i] = attempts[j] => i = j

C26_Witness ==
    /\ ScriptDone
    /\ Cardinality(Range(attempts)) = 22
    /\ attempts[1] = <<"codezombiech", "gitignore">>
    /\ attempts[22] = <<"ziyasal", "vscode-open-in-github">>
    /\ Cardinality(failures) = 1

(* C27: with every install succeeding, a further run of the script ends    *)
(* with the installed extensions it started with, those the first run      *)
(* left; and no step of any run takes an extension away                    *)
C27_Idempotent ==
    /\ []((run >= 2 /\ ScriptDone /\ failures = {} /\ failedEarlier = 0) =>
            /\ installed = before
            /\ \A l \in InstallLines : ExtId(script[l]) \in before)
    /\ [](before \subseteq installed)
    /\ [][installed \subseteq installed']_vars

C27_Witness ==
    /\ run = 2 /\ ScriptDone
    /\ failures = {} /\ failedEarlier = 0
    /\ installed = before
    /\ <<"vscodevim", "vim">> \in installed
    /\ Cardinality(installed) = 23

====
